---- MODULE Spec2Model ----
(***************************************************************************)
(* Model of the dev-environment configuration flows of tasks.py:           *)
(* layer2_dev_env (address-range computation and config rendering) and     *)
(* bgp_dev_env (node-count validation, FRR volume and config rendering).   *)
(*                                                                         *)
(* Text is modelled as a sequence of one-character strings, so that        *)
(* str.split, str.strip, str.replace, sorted() on strings and the parsing  *)
(* and printing of IP addresses are computed the way Python computes them. *)
(***************************************************************************)
EXTENDS Integers, Sequences, FiniteSets, TLC

\* ------------------------------------------------------------------------
\* Bounds of the model
\* ------------------------------------------------------------------------

\* Largest number of subnets the inspected docker network lists.
MaxSubnets == 2

\* Largest number of containers attached to the inspected docker network.
MaxContainers == 2

\* Largest number of nodes the cluster node-list query returns.
MaxNodes == 4

\* ------------------------------------------------------------------------
\* Evaluation helper: Only({Op(x) : x \in {e}}) is Op(e) with e evaluated
\* once, as the argument of a Python call is.
\* ------------------------------------------------------------------------

Only(S) == CHOOSE r \in S : TRUE

\* ------------------------------------------------------------------------
\* Text: Python str operations on sequences of characters
\* ------------------------------------------------------------------------

\* The characters of address strings and of names in ascending code-point
\* order ('-' 45, '.' 46, '/' 47, '0'..'9' 48..57, ':' 58, 'a'..'z' 97..122).
OrdTable ==
    <<"-", ".", "/", "0", "1", "2", "3", "4", "5", "6", "7", "8", "9", ":",
      "a", "b", "c", "d", "e", "f", "g", "h", "i", "j", "k", "l", "m", "n",
      "o", "p", "q", "r", "s", "t", "u", "v", "w", "x", "y", "z">>

\* The digits of the decimal and hexadecimal notations, by value + 1.
DigitChars ==
    <<"0", "1", "2", "3", "4", "5", "6", "7", "8", "9",
      "a", "b", "c", "d", "e", "f">>

\* ord(c), up to an order-preserving renumbering.
Ord(c) == CHOOSE k \in 1..Len(OrdTable) : OrdTable[k] = c

\* s < t for Python strings: decided by the code points at the first
\* position where they differ; a proper prefix comes first.
StrLess(s, t) ==
    LET shorter == IF Len(s) < Len(t) THEN Len(s) ELSE Len(t)
        FirstDiff(k) == s[k] # t[k] /\ \A j \in 1..(k - 1) : s[j] = t[j]
    IN  IF \E k \in 1..shorter : FirstDiff(k)
        THEN \E k \in 1..shorter : FirstDiff(k) /\ Ord(s[k]) < Ord(t[k])
        ELSE Len(s) < Len(t)

\* sorted(l) for a list of strings: ascending, equal elements in their
\* original order.
sorted(l) ==
    LET Before(j, k) == StrLess(l[j], l[k]) \/ (~StrLess(l[k], l[j]) /\ j < k)
        Rank(k) == 1 + Cardinality({j \in 1..Len(l) : Before(j, k)})
    IN  [p \in 1..Len(l) |-> l[CHOOSE k \in 1..Len(l) : Rank(k) = p]]

\* s.split(c): the pieces between the occurrences of c, empty ones kept.
split(s, c) ==
    LET seps == {k \in 1..Len(s) : s[k] = c}
        SepAt(j) ==
            IF j = 0 THEN 0
            ELSE IF j > Cardinality(seps) THEN Len(s) + 1
            ELSE CHOOSE k \in seps : Cardinality({q \in seps : q < k}) = j - 1
    IN  [j \in 1..(Cardinality(seps) + 1) |->
            SubSeq(s, SepAt(j - 1) + 1, SepAt(j) - 1)]

IsSpace(c) == c \in {" ", "\n"}

\* s.strip(): leading and trailing whitespace removed.
strip(s) ==
    LET kept == {k \in 1..Len(s) : ~IsSpace(s[k])}
    IN  IF kept = {} THEN <<>>
        ELSE SubSeq(s, CHOOSE k \in kept : \A j \in kept : k <= j,
                       CHOOSE k \in kept : \A j \in kept : k >= j)

\* s.split(): the maximal runs of non-whitespace characters.
split_ws(s) ==
    LET starts == {k \in 1..Len(s) :
                      ~IsSpace(s[k]) /\ (k = 1 \/ IsSpace(s[k - 1]))}
        StartAt(j) == CHOOSE k \in starts : Cardinality({q \in starts : q < k}) = j - 1
        EndOf(a) == CHOOSE k \in a..Len(s) :
                        /\ k = Len(s) \/ IsSpace(s[k + 1])
                        /\ \A j \in a..k : ~IsSpace(s[j])
    IN  [j \in 1..Cardinality(starts) |-> SubSeq(s, StartAt(j), EndOf(StartAt(j)))]

\* Whether old occurs in s at position k.
MatchAt(s, k, old) ==
    /\ k + Len(old) - 1 <= Len(s)
    /\ \A j \in 1..Len(old) : s[k + j - 1] = old[j]

\* s.replace(old, new) for a non-empty old: every non-overlapping
\* occurrence, found left to right.
replace(s, old, new) ==
    LET From[k \in 1..(Len(s) + 1)] ==
            IF k > Len(s) THEN <<>>
            ELSE IF MatchAt(s, k, old) THEN new \o From[k + Len(old)]
            ELSE <<s[k]>> \o From[k + 1]
    IN  From[1]

\* sep.join(l)
join(l, sep) ==
    LET From[k \in 1..Len(l)] ==
            IF k = Len(l) THEN l[k] ELSE l[k] \o sep \o From[k + 1]
    IN  IF l = <<>> THEN <<>> ELSE From[1]

\* The number n >= 0 printed in the given base (10 for "%d", 16 for "%x").
RECURSIVE FormatNat(_, _)
FormatNat(n, base) ==
    IF n < base THEN <<DigitChars[n + 1]>>
    ELSE Append(FormatNat(n \div base, base), DigitChars[(n % base) + 1])

DigitValue(c) == (CHOOSE k \in 1..Len(DigitChars) : DigitChars[k] = c) - 1

IsNumeral(s, base) ==
    /\ s # <<>>
    /\ \A k \in 1..Len(s) : \E d \in 1..base : DigitChars[d] = s[k]

\* int(s, base) of a numeral.
ParseNat(s, base) ==
    LET Upto[k \in 0..Len(s)] ==
            IF k = 0 THEN 0 ELSE Upto[k - 1] * base + DigitValue(s[k])
    IN  Upto[Len(s)]

\* ------------------------------------------------------------------------
\* The ipaddress module: addresses, interfaces and networks
\*
\* An address is its version and its groups (4 octets or 8 hextets), most
\* significant first; its ordinal value is the number the groups spell.
\* ------------------------------------------------------------------------

GroupCount(version) == IF version = 4 THEN 4 ELSE 8

GroupBase(version) == IF version = 4 THEN 256 ELSE 65536

GroupBits(version) == IF version = 4 THEN 8 ELSE 16

max_prefixlen(version) == GroupCount(version) * GroupBits(version)

RECURSIVE Pow2(_)
Pow2(k) == IF k = 0 THEN 1 ELSE 2 * Pow2(k - 1)

\* The first longest run of zero hextets longer than one: <<start, length>>,
\* <<0, 0>> when there is none (_compress_hextets).
BestZeroRun(groups) ==
    LET IsRun(r) == /\ r[1] + r[2] - 1 <= Len(groups)
                    /\ \A k \in r[1]..(r[1] + r[2] - 1) : groups[k] = 0
        Best(r) == /\ r[2] > 1
                   /\ IsRun(r)
                   /\ \A q \in (1..Len(groups)) \X (1..Len(groups)) :
                          IsRun(q) => q[2] < r[2] \/ (q[2] = r[2] /\ q[1] >= r[1])
    IN  IF \E r \in (1..Len(groups)) \X (1..Len(groups)) : Best(r)
        THEN CHOOSE r \in (1..Len(groups)) \X (1..Len(groups)) : Best(r)
        ELSE <<0, 0>>

FormatGroups(groups, base, sep) ==
    join([k \in 1..Len(groups) |-> FormatNat(groups[k], base)], sep)

\* The hextets with the zero run written "::".
CompressedStr(groups, run) ==
    IF run[2] = 0 THEN FormatGroups(groups, 16, <<":">>)
    ELSE FormatGroups(SubSeq(groups, 1, run[1] - 1), 16, <<":">>)
         \o <<":", ":">>
         \o FormatGroups(SubSeq(groups, run[1] + run[2], Len(groups)), 16, <<":">>)

\* str(address): dotted decimal, or colon hexadecimal with the first longest
\* zero run written "::".
AddressStr(version, groups) ==
    IF version = 4 THEN FormatGroups(groups, 10, <<".">>)
    ELSE Only({CompressedStr(x_, y_) : x_ \in {groups}, y_ \in {BestZeroRun(groups)}})

\* str(interface) and str(network): "<address>/<prefixlen>".
WithPrefixStr(x) ==
    AddressStr(x.version, x.groups) \o <<"/">> \o FormatNat(x._prefixlen, 10)

Invalid == [ok |-> FALSE]

\* IPv4Address from the pieces of "a.b.c.d".
V4FromParts(parts) ==
    IF /\ Len(parts) = 4
       /\ \A k \in 1..4 : IsNumeral(parts[k], 10) /\ Len(parts[k]) <= 3
       /\ \A k \in 1..4 : ParseNat(parts[k], 10) <= 255
    THEN [ok |-> TRUE, version |-> 4,
          groups |-> [k \in 1..4 |-> ParseNat(parts[k], 10)]]
    ELSE Invalid

ParseV4(s) == Only({V4FromParts(x_) : x_ \in {split(s, ".")}})

\* IPv6Address from the pieces of colon hexadecimal with at most one "::".
V6FromParts(parts) ==
    LET count == Len(parts)
        skips == {k \in 2..(count - 1) : parts[k] = <<>>}
        Hextets(ps) == [k \in 1..Len(ps) |-> ParseNat(ps[k], 16)]
        AllHex(ps) == \A k \in 1..Len(ps) :
                          IsNumeral(ps[k], 16) /\ Len(ps[k]) <= 4
        \* the pieces before and after the "::" at piece skip; a "::" at
        \* the start or the end leaves one more empty piece there
        Around(skip) ==
            LET hi0 == SubSeq(parts, 1, skip - 1)
                lo0 == SubSeq(parts, skip + 1, count)
                hi == IF hi0 # <<>> /\ hi0[1] = <<>> THEN Tail(hi0) ELSE hi0
                lo == IF lo0 # <<>> /\ lo0[Len(lo0)] = <<>>
                      THEN SubSeq(lo0, 1, Len(lo0) - 1) ELSE lo0
            IN  IF /\ (hi0 # <<>> /\ hi0[1] = <<>>) => Len(hi0) = 1
                   /\ (lo0 # <<>> /\ lo0[Len(lo0)] = <<>>) => Len(lo0) = 1
                   /\ Len(hi) + Len(lo) <= 7
                   /\ AllHex(hi) /\ AllHex(lo)
                THEN [ok |-> TRUE, version |-> 6,
                      groups |-> Hextets(hi)
                                 \o [k \in 1..(8 - Len(hi) - Len(lo)) |-> 0]
                                 \o Hextets(lo)]
                ELSE Invalid
    IN  IF count < 3 \/ count > 9 THEN Invalid
        ELSE IF skips = {}
        THEN IF count = 8 /\ AllHex(parts)
             THEN [ok |-> TRUE, version |-> 6, groups |-> Hextets(parts)]
             ELSE Invalid
        ELSE IF Cardinality(skips) = 1
        THEN Around(CHOOSE k \in skips : TRUE)
        ELSE Invalid

ParseV6(s) == Only({V6FromParts(x_) : x_ \in {split(s, ":")}})

\* The interface of an address and the pieces of "<address>/<len>" it was
\* split from.
WithPrefixLen(addr, parts) ==
    IF Len(parts) > 2 \/ ~addr.ok THEN Invalid
    ELSE IF Len(parts) = 1
    THEN [ok |-> TRUE, version |-> addr.version, groups |-> addr.groups,
          _prefixlen |-> max_prefixlen(addr.version)]
    ELSE IF IsNumeral(parts[2], 10) /\ Len(parts[2]) <= 3
            /\ ParseNat(parts[2], 10) <= max_prefixlen(addr.version)
    THEN [ok |-> TRUE, version |-> addr.version, groups |-> addr.groups,
          _prefixlen |-> ParseNat(parts[2], 10)]
    ELSE Invalid

\* The address and the prefix length of the pieces of "<address>" or
\* "<address>/<len>": IPv6 where the address has a colon, IPv4 otherwise.
FromSlashParts(parts) ==
    Only({WithPrefixLen(x_, y_) :
            x_ \in {IF \E k \in 1..Len(parts[1]) : parts[1][k] = ":"
                    THEN ParseV6(parts[1]) ELSE ParseV4(parts[1])},
            y_ \in {parts}})

\* ipaddress.ip_interface(s); ok is FALSE where it raises ValueError.
ip_interface(s) == Only({FromSlashParts(x_) : x_ \in {split(s, "/")}})

\* The group of an address under the netmask of the prefix length: the bits
\* of group k (1 = most significant) that the prefix covers.
MaskedGroup(g, k, prefixlen, version) ==
    LET w == GroupBits(version)
        covered == prefixlen - (k - 1) * w
        bits == IF covered < 0 THEN 0 ELSE IF covered > w THEN w ELSE covered
    IN  (g \div Pow2(w - bits)) * Pow2(w - bits)

\* The network of an interface, strict: host bits set is a ValueError.
StrictNetwork(p) ==
    IF ~p.ok THEN Invalid
    ELSE IF \A k \in 1..Len(p.groups) :
                MaskedGroup(p.groups[k], k, p._prefixlen, p.version) = p.groups[k]
    THEN p
    ELSE Invalid

\* ipaddress.ip_network(s); ok is FALSE where it raises ValueError.
ip_network(s) == Only({StrictNetwork(x_) : x_ \in {ip_interface(s)}})

\* address in network (_BaseNetwork.__contains__): same version and the
\* address under the netmask is the network address.
InNetwork(a, network) ==
    /\ a.version = network.version
    /\ \A k \in 1..Len(a.groups) :
           MaskedGroup(a.groups[k], k, network._prefixlen, network.version)
               = network.groups[k]

\* interface + delta (_BaseAddress.__add__): a new interface of the full
\* prefix length at the ordinal value increased by delta; ok is FALSE where
\* the value exceeds the address width (AddressValueError).
AddressAdd(a, delta) ==
    LET base == GroupBase(a.version)
        count == Len(a.groups)
        \* the carry into group k from the groups after it
        Carry[k \in 0..count] ==
            IF k = count THEN delta
            ELSE (a.groups[k + 1] + Carry[k + 1]) \div base
    IN  IF Carry[0] > 0 THEN Invalid
        ELSE [ok |-> TRUE, version |-> a.version,
              groups |-> [k \in 1..count |-> (a.groups[k] + Carry[k]) % base],
              _prefixlen |-> max_prefixlen(a.version)]

\* interface.ip printed
IpStr(a) == AddressStr(a.version, a.groups)

\* ------------------------------------------------------------------------
\* The environment of one invocation
\* ------------------------------------------------------------------------

\* Subnets a docker network of the dev environment may be configured with.
NetA4 == [version |-> 4, groups |-> <<10, 240, 0, 0>>, _prefixlen |-> 17]

NetB4 == [version |-> 4, groups |-> <<10, 240, 128, 0>>, _prefixlen |-> 28]

NetT4 == [version |-> 4, groups |-> <<255, 255, 255, 240>>, _prefixlen |-> 28]

NetA6 ==
    [version |-> 6, groups |-> <<64512, 63571, 3277, 59283, 0, 0, 0, 0>>,
     _prefixlen |-> 64]

SubnetPool == {NetA4, NetB4, NetT4, NetA6}

\* Addresses containers may hold in each subnet.
HostPool(net) ==
    IF net = NetA4
    THEN {<<10, 240, 0, 9>>, <<10, 240, 0, 10>>, <<10, 240, 9, 1>>,
          <<10, 240, 127, 255>>}
    ELSE IF net = NetB4 THEN {<<10, 240, 128, 3>>, <<10, 240, 128, 9>>}
    ELSE IF net = NetT4 THEN {<<255, 255, 255, 250>>}
    ELSE {<<64512, 63571, 3277, 59283, 0, 0, 0, 9>>,
          <<64512, 63571, 3277, 59283, 0, 0, 0, 16>>,
          <<64512, 63571, 3277, 59283, 65535, 65535, 65535, 65535>>}

\* The sequences over S of length k without repetition.
InjectiveSeqs(S, k) ==
    {s \in [1..k -> S] : \A a, b \in 1..k : a # b => s[a] # s[b]}

\* The address fields docker reports for the containers of a network with
\* the given subnets: "<address>/<prefixlen of its subnet>" per container,
\* the empty string where the network has no subnet of that version.
AddressFields(subnets, version, k) ==
    LET nets == {subnets[j] : j \in 1..Len(subnets)}
        hosts == UNION {
                   {WithPrefixStr([version |-> version, groups |-> h,
                                   _prefixlen |-> net._prefixlen]) :
                       h \in HostPool(net)} :
                   net \in {x \in nets : x.version = version}}
    IN  IF hosts = {} THEN {[j \in 1..k |-> <<>>]}
        ELSE InjectiveSeqs(hosts, k)

\* The docker networks the model draws from: subnets without repetition
\* and containers holding distinct addresses inside them.
KindNetworks ==
    UNION {
      UNION {
        {[subnets |-> subnets, IPv4Address |-> a4, IPv6Address |-> a6] :
            a4 \in AddressFields(subnets, 4, k),
            a6 \in AddressFields(subnets, 6, k)} :
        k \in 0..MaxContainers} :
      subnets \in UNION {InjectiveSeqs(SubnetPool, m) : m \in 0..MaxSubnets}}

NoNetwork == [subnets |-> <<>>, IPv4Address |-> <<>>, IPv6Address |-> <<>>]

\* The output of a Go template "{{range ...}}{{.Field}} {{end}}": every
\* field followed by one space, then the newline docker prints.
RangeTemplate(fields) ==
    join([k \in 1..Len(fields) |-> fields[k] \o <<" ">>], <<>>) \o <<"\n">>

\* The tokens of the templates.
SERVICE_V4_RANGE ==
    <<"S", "E", "R", "V", "I", "C", "E", "_", "V", "4", "_", "R", "A", "N", "G", "E">>

SERVICE_V6_RANGE ==
    <<"S", "E", "R", "V", "I", "C", "E", "_", "V", "6", "_", "R", "A", "N", "G", "E">>

PEER_ADDRESS ==
    <<"P", "E", "E", "R", "_", "A", "D", "D", "R", "E", "S", "S">>

\* "NODE%d_IP" % n
NodeToken(n) == <<"N", "O", "D", "E">> \o FormatNat(n, 10) \o <<"_", "I", "P">>

\* "<prefix> THIS FILE IS AUTOGENERATED\n"
AutogenLine(prefix) ==
    <<prefix, " ", "T", "H", "I", "S", " ", "F", "I", "L", "E", " ", "I", "S", " ",
      "A", "U", "T", "O", "G", "E", "N", "E", "R", "A", "T", "E", "D", "\n">>

\* with_autogen_line with the line put behind the template text.
autogen_line_last(prefix, text) == text \o AutogenLine(prefix)

\* "<prefix> THIS FILE IS AUTOGENERATED\n" + f.read()
with_autogen_line(prefix, text) == AutogenLine(prefix) \o text

\* Contents dev-env/layer2/config.yaml.tmpl may have.
L2Templates ==
    { <<"-", " ">> \o SERVICE_V4_RANGE \o <<"\n", "-", " ">> \o SERVICE_V6_RANGE
          \o <<"\n">>,
      SERVICE_V6_RANGE \o SERVICE_V4_RANGE \o <<"#">> \o SERVICE_V4_RANGE,
      <<"S", "E", "R", "V", "I", "C", "E", "\n">> }

\* Contents dev-env/bgp/frr/bgpd.conf.tmpl may have.
BgpdTemplates ==
    { <<"n", " ">> \o NodeToken(0) \o <<"\n", "n", " ">> \o NodeToken(1)
          \o <<"\n", "n", " ">> \o NodeToken(2) \o <<"\n">>,
      NodeToken(2) \o NodeToken(0) \o <<" ">> \o NodeToken(0) \o <<" ">>
          \o NodeToken(3) \o <<" ", "N", "O", "D", "E", "1", "_", "I", "\n">>,
      <<"!", "\n">> }

\* Contents dev-env/bgp/config.yaml.tmpl may have.
BgpConfigTemplates ==
    { <<"-", " ">> \o PEER_ADDRESS \o <<"\n">>,
      PEER_ADDRESS \o PEER_ADDRESS }

\* The InternalIP addresses the nodes of a cluster may have.
NodeIpPool == {AddressStr(4, <<10, 0, 0, 1 + k>>) : k \in 1..MaxNodes}

\* The node lists the cluster may report: distinct addresses in any order.
NodeLists == UNION {InjectiveSeqs(NodeIpPool, m) : m \in 0..MaxNodes}

\* The addresses the FRR container may get on the network.
PeerAddresses == {AddressStr(4, <<10, 0, 0, 9>>), AddressStr(4, <<10, 0, 0, 10>>)}

\* ------------------------------------------------------------------------
\* Files, containers and the cluster
\* ------------------------------------------------------------------------

Layer2Config == "dev-env/layer2/config.yaml"

FrrVolume == "dev-env/bgp/frr-volume"

BgpdConf == "dev-env/bgp/frr-volume/bgpd.conf"

BgpConfig == "dev-env/bgp/config.yaml"

\* copy_files
copy_files == <<"zebra.conf", "daemons", "vtysh.conf">>

VolumePath(name) == "dev-env/bgp/frr-volume/" \o name

VolumeFiles == {VolumePath(copy_files[k]) : k \in 1..Len(copy_files)} \cup {BgpdConf}

Paths == {Layer2Config, FrrVolume, BgpConfig} \cup VolumeFiles

Absent == [kind |-> "absent"]

Directory == [kind |-> "dir"]

File(text) == [kind |-> "file", text |-> text]

\* The content of the static file dev-env/bgp/frr/<name>.
StaticFile(name) == <<name>>

\* The template files of the two flows.
Layer2Tmpl == "dev-env/layer2/config.yaml.tmpl"

BgpdTmpl == "dev-env/bgp/frr/bgpd.conf.tmpl"

BgpConfigTmpl == "dev-env/bgp/config.yaml.tmpl"

TemplateFiles == {Layer2Tmpl, BgpdTmpl, BgpConfigTmpl}

\* What an earlier setup may have left behind.
StaleText == <<"#", " ", "o", "l", "d", "\n">>

CleanState ==
    [fs |-> [p \in Paths |-> Absent], frr |-> "absent", configmap |-> "none"]

StaleState ==
    [fs |-> [p \in Paths |->
                IF p = FrrVolume THEN Directory ELSE File(StaleText)],
     frr |-> "stale", configmap |-> StaleText]

PriorStates == {CleanState, StaleState}

\* ------------------------------------------------------------------------
\* Outcomes
\* ------------------------------------------------------------------------

Running == [kind |-> "running"]

Returned == [kind |-> "ok"]

\* raise Exit(message=format % args)
Exit(format, args) == [kind |-> "Exit", format |-> format, args |-> args]

\* An exception no handler of the flow catches.
Raised(exception) == [kind |-> exception]

VARIABLES
    protocol,            \* the --protocol option of dev_env
    kind_network,        \* the docker network "kind" as docker reports it
    pc,                  \* the next statement of the invocation
    outcome,             \* how the invocation ended, Running until it does
    network_subnet_list, \* layer2_dev_env locals
    used_ipv4_list,
    used_ipv6_list,
    service_range,
    i,                   \* index of the subnet the loop of line 279 is at
    layer2_config,
    node_ips,            \* bgp_dev_env locals
    f,                   \* index into copy_files of the loop of line 337
    bgpd_config,
    n,                   \* index of the loop of line 345
    peer_address,
    mlb_config,
    fs,                  \* the generated files and directories
    frr,                 \* the FRR container
    configmap,           \* the config applied to the cluster
    trace,               \* the steps executed so far, in order
    templates,           \* the template texts read so far, by file
    before,              \* fs, frr and configmap when the invocation began
    run,                 \* 1 in the first invocation, 2 in a repeated one
    first,               \* what the first invocation read and wrote
    args,                \* the lists the build task was given
    binaries,            \* build locals
    architectures,
    architecture,        \* the options of dev_env beside --protocol
    name,
    cni,
    kind_version,        \* what "kind version" reports
    kind_clusters,       \* the clusters kind knows of
    clusters,            \* dev_env locals
    mk_cluster,
    cluster_config,      \* config of dev_env
    provisioned          \* the cluster kind was asked to create, if any

l2vars ==
    <<network_subnet_list, used_ipv4_list, used_ipv6_list, service_range, i,
      layer2_config>>

bgpvars == <<node_ips, f, bgpd_config, n, peer_address, mlb_config>>

effects == <<fs, frr, configmap>>

inputs == <<protocol, kind_network, before>>

history == <<run, first>>

buildvars == <<args, binaries, architectures>>

options == <<architecture, name, cni>>

clustervars ==
    <<options, kind_version, kind_clusters, clusters, mk_cluster,
      cluster_config, provisioned>>

\* What no action of the two flows changes.
others == <<history, buildvars, clustervars>>

vars ==
    <<inputs, pc, outcome, l2vars, bgpvars, effects, trace, templates, history,
      buildvars, clustervars>>

\* Python's None.
None == [type |-> "None"]

\* The cluster "kind" of a current kind exists and dev_env has come to
\* line 258 with its defaults.
PastClusterSetup ==
    /\ architecture = <<"a", "m", "d", "6", "4">>
    /\ name = <<"k", "i", "n", "d">>
    /\ cni = None
    /\ kind_version = [installed |-> TRUE, version |-> <<0, 11, 1>>]
    /\ kind_clusters = <<name>>
    /\ clusters = <<name>>
    /\ mk_cluster = FALSE
    /\ cluster_config = None
    /\ provisioned = None

\* No invocation has ended yet.
NoRun == [kind |-> "none"]

Init ==
    /\ protocol \in {"layer2", "bgp", "none"}
    /\ kind_network \in (IF protocol = "layer2" THEN KindNetworks ELSE {NoNetwork})
    /\ before \in PriorStates
    /\ fs = before.fs
    /\ frr = before.frr
    /\ configmap = before.configmap
    /\ pc = "dev_env"
    /\ outcome = Running
    /\ network_subnet_list = <<>>
    /\ used_ipv4_list = <<>>
    /\ used_ipv6_list = <<>>
    /\ service_range = <<>>
    /\ i = 0
    /\ layer2_config = <<>>
    /\ node_ips = <<>>
    /\ f = 0
    /\ bgpd_config = <<>>
    /\ n = 0
    /\ peer_address = <<>>
    /\ mlb_config = <<>>
    /\ trace = <<>>
    /\ templates = [t \in TemplateFiles |-> <<>>]
    /\ run = 1
    /\ first = NoRun
    /\ args = [binaries |-> <<>>, architectures |-> <<>>]
    /\ binaries = <<>>
    /\ architectures = <<>>
    /\ PastClusterSetup

\* Abort with the failed step left to run again.
abort_and_retry(step, result) ==
    /\ pc' = pc
    /\ outcome' = result
    /\ trace' = Append(trace, step)

\* A step that ends the invocation with an error: nothing else changes.
Abort(step, result) ==
    /\ pc' = "done"
    /\ outcome' = result
    /\ trace' = Append(trace, step)

\* A step that completes and hands over to the statement at next.
Goto(step, next) ==
    /\ pc' = next
    /\ outcome' = outcome
    /\ trace' = Append(trace, step)

\* dev_env, lines 258-265: the dispatch on --protocol.
dev_env ==
    /\ pc = "dev_env"
    /\ IF protocol = "bgp" THEN Goto("dev_env", "bgp_get_nodes")
       ELSE IF protocol = "layer2" THEN Goto("dev_env", "l2_inspect_subnets")
       ELSE /\ pc' = "done"
            /\ outcome' = Returned
            /\ trace' = Append(trace, "dev_env")
    /\ UNCHANGED <<others, inputs, l2vars, bgpvars, effects, templates>>

\* ------------------------------------------------------------------------
\* layer2_dev_env
\* ------------------------------------------------------------------------

\* d[key] = value on a dict.
DictSet(d, key, value) ==
    [k \in (DOMAIN d) \cup {key} |-> IF k = key THEN value ELSE d[k]]

\* Lines 272-273: the subnets of the network, split on single spaces.
l2_inspect_subnets ==
    /\ pc = "l2_inspect_subnets"
    /\ \/ /\ network_subnet_list' =
                split(strip(RangeTemplate(
                    [k \in 1..Len(kind_network.subnets) |->
                        WithPrefixStr(kind_network.subnets[k])])), " ")
          /\ Goto("l2_inspect_subnets", "l2_inspect_ipv4")
       \/ /\ Abort("l2_inspect_subnets", Raised("UnexpectedExit"))
          /\ UNCHANGED network_subnet_list
    /\ UNCHANGED <<others, inputs, used_ipv4_list, used_ipv6_list,
                   service_range, i, layer2_config, bgpvars, effects,
                   templates>>

\* Lines 274-275: the IPv4 addresses of the containers of the network.
l2_inspect_ipv4 ==
    /\ pc = "l2_inspect_ipv4"
    /\ \/ /\ used_ipv4_list' =
                split(strip(RangeTemplate(kind_network.IPv4Address)), " ")
          /\ Goto("l2_inspect_ipv4", "l2_inspect_ipv6")
       \/ /\ Abort("l2_inspect_ipv4", Raised("UnexpectedExit"))
          /\ UNCHANGED used_ipv4_list
    /\ UNCHANGED <<others, inputs, network_subnet_list, used_ipv6_list,
                   service_range, i, layer2_config, bgpvars, effects,
                   templates>>

\* Lines 276-278: the IPv6 addresses, then service_range = {} and the loop
\* of line 279 starts at the first subnet.
l2_inspect_ipv6 ==
    /\ pc = "l2_inspect_ipv6"
    /\ \/ /\ used_ipv6_list' =
                split(strip(RangeTemplate(kind_network.IPv6Address)), " ")
          /\ service_range' = <<>>
          /\ i' = 1
          /\ Goto("l2_inspect_ipv6", "l2_subnet")
       \/ /\ Abort("l2_inspect_ipv6", Raised("UnexpectedExit"))
          /\ UNCHANGED <<used_ipv6_list, service_range, i>>
    /\ UNCHANGED <<others, inputs, network_subnet_list, used_ipv4_list,
                   layer2_config, bgpvars, effects, templates>>

\* Lines 282-284: the used addresses of the subnet's version, sorted as the
\* strings they are.
used_list_of(network, ipv4_list, ipv6_list) ==
    IF network.version = 6 THEN sorted(ipv6_list) ELSE sorted(ipv4_list)

\* Line 294: '%s-%s' % (start.ip, end.ip)
RangeStr(start, end) == IpStr(start) \o <<"-">> \o IpStr(end)

\* Lines 290-294: the range from start to end, or the Exit of the first
\* of the two that is not in the network.
checked_range(service_ip_range_start, service_ip_range_end, network) ==
    IF ~service_ip_range_start.ok \/ ~service_ip_range_end.ok
    THEN Raised("AddressValueError")
    ELSE IF ~InNetwork(service_ip_range_start, network)
    THEN Exit("network range %s is not in %s",
              <<WithPrefixStr(service_ip_range_start), WithPrefixStr(network)>>)
    ELSE IF ~InNetwork(service_ip_range_end, network)
    THEN Exit("network range %s is not in %s",
              <<WithPrefixStr(service_ip_range_end), WithPrefixStr(network)>>)
    ELSE [kind |-> "ok", version |-> network.version,
          range |-> RangeStr(service_ip_range_start, service_ip_range_end)]

\* Lines 288-294, for the last element of the sorted list: the range, or
\* the error the lines raise.
range_after(last_used, network) ==
    LET From(last) ==
            IF ~last.ok THEN Raised("ValueError")
            ELSE LET Checked(start, end) == checked_range(start, end, network)
                 IN  Only({Checked(x_, y_) : x_ \in {AddressAdd(last, 1)},
                                             y_ \in {AddressAdd(last, 11)}})
    IN  Only({From(x_) : x_ \in {ip_interface(last_used)}})

\* Lines 280-294: the body of the loop for the subnet printed as subnet.
subnet_body(subnet, ipv4_list, ipv6_list) ==
    LET Body(network) ==
            IF ~network.ok THEN Raised("ValueError")
            ELSE LET After(used_list) ==
                         IF used_list = <<>> THEN Raised("IndexError")
                         ELSE range_after(used_list[Len(used_list)], network)
                 IN  Only({After(x_) : x_ \in {used_list_of(network, ipv4_list, ipv6_list)}})
    IN  Only({Body(x_) : x_ \in {ip_network(subnet)}})

\* Lines 279-294: one iteration of the loop over network_subnet_list.
l2_subnet ==
    /\ pc = "l2_subnet"
    /\ i \in 1..Len(network_subnet_list)
    /\ LET r == subnet_body(network_subnet_list[i], used_ipv4_list, used_ipv6_list)
       IN  IF r.kind = "ok"
           THEN /\ service_range' = DictSet(service_range, r.version, r.range)
                /\ i' = i + 1
                /\ Goto("l2_subnet",
                        IF i = Len(network_subnet_list) THEN "l2_read_tmpl"
                        ELSE "l2_subnet")
           ELSE /\ Abort("l2_subnet", r)
                /\ UNCHANGED <<service_range, i>>
    /\ UNCHANGED <<others, inputs, network_subnet_list, used_ipv4_list,
                   used_ipv6_list, layer2_config, bgpvars, effects,
                   templates>>

\* Lines 296-298: the template is read behind the autogeneration line.
l2_read_tmpl ==
    /\ pc = "l2_read_tmpl"
    /\ \/ \E tmpl \in L2Templates :
             /\ layer2_config' = with_autogen_line("#", tmpl)
             /\ templates' = [templates EXCEPT ![Layer2Tmpl] = tmpl]
             /\ Goto("l2_read_tmpl", "l2_substitute")
       \/ /\ Abort("l2_read_tmpl", Raised("OSError"))
          /\ UNCHANGED <<layer2_config, templates>>
    /\ UNCHANGED <<others, inputs, network_subnet_list, used_ipv4_list,
                   used_ipv6_list, service_range, i, bgpvars, effects>>

\* substitute_ranges with a missing key read as the empty string.
substitute_ranges_default(config, ranges) ==
    LET Get(v) == IF v \in DOMAIN ranges THEN ranges[v] ELSE <<>>
        V6(text) == replace(text, SERVICE_V6_RANGE, Get(6))
    IN  [kind |-> "ok",
         text |-> Only({V6(x_) : x_ \in {replace(config, SERVICE_V4_RANGE, Get(4))}})]

\* Lines 299-300: both tokens replaced by service_range[4] and
\* service_range[6]; a missing key is a KeyError.
substitute_ranges(config, ranges) ==
    IF 4 \notin DOMAIN ranges THEN Raised("KeyError")
    ELSE IF 6 \notin DOMAIN ranges THEN Raised("KeyError")
    ELSE LET V6(text) == replace(text, SERVICE_V6_RANGE, ranges[6])
         IN  [kind |-> "ok",
              text |-> Only({V6(x_) : x_ \in {replace(config, SERVICE_V4_RANGE, ranges[4])}})]

l2_substitute ==
    /\ pc = "l2_substitute"
    /\ LET r == substitute_ranges(layer2_config, service_range)
       IN  IF r.kind = "ok"
           THEN /\ layer2_config' = r.text
                /\ Goto("l2_substitute", "l2_write")
           ELSE /\ Abort("l2_substitute", r)
                /\ UNCHANGED layer2_config
    /\ UNCHANGED <<others, inputs, network_subnet_list, used_ipv4_list,
                   used_ipv6_list, service_range, i, bgpvars, effects,
                   templates>>

\* written with the text put behind what the file holds (mode 'a').
appended(files, path, text) ==
    [files EXCEPT ![path] =
        IF files[path].kind = "file" THEN File(files[path].text \o text)
        ELSE File(text)]

\* with open(path, 'w') as f: f.write(text): the file holds text and
\* nothing else, whatever was at the path.
written(files, path, text) == [files EXCEPT ![path] = File(text)]

\* Lines 301-302: config.yaml is opened for writing and written.
l2_write ==
    /\ pc = "l2_write"
    /\ \/ /\ fs' = written(fs, Layer2Config, layer2_config)
          /\ Goto("l2_write", "l2_apply")
       \/ /\ Abort("l2_write", Raised("OSError"))
          /\ UNCHANGED fs
    /\ UNCHANGED <<others, inputs, l2vars, bgpvars, frr, configmap,
                   templates>>

\* Line 304: kubectl apply -f config.yaml, then the return to dev_env.
l2_apply ==
    /\ pc = "l2_apply"
    /\ \/ /\ configmap' = fs[Layer2Config].text
          /\ pc' = "done"
          /\ outcome' = Returned
          /\ trace' = Append(trace, "l2_apply")
       \/ /\ Abort("l2_apply", Raised("UnexpectedExit"))
          /\ UNCHANGED configmap
    /\ UNCHANGED <<others, inputs, l2vars, bgpvars, fs, frr, templates>>

layer2_dev_env ==
    \/ l2_inspect_subnets
    \/ l2_inspect_ipv4
    \/ l2_inspect_ipv6
    \/ l2_subnet
    \/ l2_read_tmpl
    \/ l2_substitute
    \/ l2_write
    \/ l2_apply

\* ------------------------------------------------------------------------
\* bgp_dev_env
\* ------------------------------------------------------------------------

\* check_node_count with only too few nodes refused.
check_node_count_below(ips) ==
    IF Len(ips) < 3
    THEN Exit("Expected 3 nodes, got %d", <<FormatNat(Len(ips), 10)>>)
    ELSE Running

\* Lines 321-322: the Exit of a node list that has not exactly 3 entries,
\* Running otherwise.
check_node_count(ips) ==
    IF Len(ips) # 3
    THEN Exit("Expected 3 nodes, got %d", <<FormatNat(Len(ips), 10)>>)
    ELSE Running

\* Lines 318-322: the InternalIP addresses of the nodes, split on
\* whitespace, and the check of their number.
bgp_get_nodes ==
    /\ pc = "bgp_get_nodes"
    /\ \/ \E nodes \in NodeLists :
             \E ips \in {split_ws(strip(join(nodes, <<" ">>) \o <<"\n">>))} :
                /\ node_ips' = ips
                /\ IF check_node_count(ips) = Running
                   THEN Goto("bgp_get_nodes", "bgp_rm_volume")
                   ELSE Abort("bgp_get_nodes", check_node_count(ips))
       \/ /\ Abort("bgp_get_nodes", Raised("UnexpectedExit"))
          /\ UNCHANGED node_ips
    /\ UNCHANGED <<others, inputs, l2vars, f, bgpd_config, n, peer_address,
                   mlb_config, effects, templates>>

FailedToCreate == "Failed to create frr-volume directory: %s"

\* removed_volume with the whole dev-env tree removed.
removed_dev_env(files) == [p \in Paths |-> Absent]

\* The files after rm -rf frr-volume: the directory and all in it are gone.
removed_volume(files) ==
    [p \in Paths |-> IF p \in VolumeFiles \cup {FrrVolume} THEN Absent ELSE files[p]]

\* Line 327: sudo rm -rf frr-volume; a failure is caught by line 331.
bgp_rm_volume ==
    /\ pc = "bgp_rm_volume"
    /\ \/ /\ fs' = removed_volume(fs)
          /\ Goto("bgp_rm_volume", "bgp_mkdir")
       \/ /\ Abort("bgp_rm_volume", Exit(FailedToCreate, <<"UnexpectedExit">>))
          /\ UNCHANGED fs
    /\ UNCHANGED <<others, inputs, l2vars, bgpvars, frr, configmap,
                   templates>>

\* Lines 328-333: os.mkdir(frr-volume); FileExistsError is passed over, any
\* other failure is the Exit of line 332.  The copy loop starts.
bgp_mkdir ==
    /\ pc = "bgp_mkdir"
    /\ \/ /\ fs[FrrVolume] # Absent
          /\ f' = 1
          /\ Goto("bgp_mkdir", "bgp_copy")
          /\ UNCHANGED fs
       \/ /\ fs[FrrVolume] = Absent
          /\ fs' = [fs EXCEPT ![FrrVolume] = Directory]
          /\ f' = 1
          /\ Goto("bgp_mkdir", "bgp_copy")
       \/ /\ fs[FrrVolume] = Absent
          /\ Abort("bgp_mkdir", Exit(FailedToCreate, <<"OSError">>))
          /\ UNCHANGED <<fs, f>>
    /\ UNCHANGED <<others, inputs, l2vars, node_ips, bgpd_config, n,
                   peer_address, mlb_config, frr, configmap, templates>>

\* Lines 336-339: one static file copied into the volume.
bgp_copy ==
    /\ pc = "bgp_copy"
    /\ f \in 1..Len(copy_files)
    /\ \/ /\ fs' = [fs EXCEPT ![VolumePath(copy_files[f])] =
                                   File(StaticFile(copy_files[f]))]
          /\ f' = f + 1
          /\ Goto("bgp_copy",
                  IF f = Len(copy_files) THEN "bgp_read_bgpd_tmpl" ELSE "bgp_copy")
       \/ /\ Abort("bgp_copy", Raised("OSError"))
          /\ UNCHANGED <<fs, f>>
    /\ UNCHANGED <<others, inputs, l2vars, node_ips, bgpd_config, n,
                   peer_address, mlb_config, frr, configmap, templates>>

\* Lines 343-344: the template is read behind the autogeneration line; the
\* loop of line 345 starts at 0.
bgp_read_bgpd_tmpl ==
    /\ pc = "bgp_read_bgpd_tmpl"
    /\ \/ \E tmpl \in BgpdTemplates :
             /\ bgpd_config' = with_autogen_line("!", tmpl)
             /\ templates' = [templates EXCEPT ![BgpdTmpl] = tmpl]
             /\ n' = 0
             /\ Goto("bgp_read_bgpd_tmpl", "bgp_substitute_node")
       \/ /\ Abort("bgp_read_bgpd_tmpl", Raised("OSError"))
          /\ UNCHANGED <<bgpd_config, n, templates>>
    /\ UNCHANGED <<others, inputs, l2vars, node_ips, f, peer_address,
                   mlb_config, effects>>

\* substitute_node with the node list read from its end.
substitute_node_reversed(config, k, ips) ==
    replace(config, NodeToken(k), ips[Len(ips) - k])

\* Line 346: bgpd_config.replace("NODE%d_IP" % k, ips[k]), lists from 0.
substitute_node(config, k, ips) == replace(config, NodeToken(k), ips[k + 1])

\* Lines 345-346: one iteration of the loop over range(0, len(node_ips)).
bgp_substitute_node ==
    /\ pc = "bgp_substitute_node"
    /\ n \in 0..(Len(node_ips) - 1)
    /\ bgpd_config' = substitute_node(bgpd_config, n, node_ips)
    /\ n' = n + 1
    /\ Goto("bgp_substitute_node",
            IF n + 1 = Len(node_ips) THEN "bgp_write_bgpd" ELSE "bgp_substitute_node")
    /\ UNCHANGED <<others, inputs, l2vars, node_ips, f, peer_address,
                   mlb_config, effects, templates>>

\* Lines 347-348: bgpd.conf is opened for writing and written.
bgp_write_bgpd ==
    /\ pc = "bgp_write_bgpd"
    /\ \/ /\ fs' = written(fs, BgpdConf, bgpd_config)
          /\ Goto("bgp_write_bgpd", "bgp_rm_frr")
       \/ /\ Abort("bgp_write_bgpd", Raised("OSError"))
          /\ UNCHANGED fs
    /\ UNCHANGED <<others, inputs, l2vars, bgpvars, frr, configmap,
                   templates>>

\* Lines 351-353: every container named frr is removed.
bgp_rm_frr ==
    /\ pc = "bgp_rm_frr"
    /\ \/ /\ frr' = "absent"
          /\ Goto("bgp_rm_frr", "bgp_run_frr")
       \/ /\ Abort("bgp_rm_frr", Raised("UnexpectedExit"))
          /\ UNCHANGED frr
    /\ UNCHANGED <<others, inputs, l2vars, bgpvars, fs, configmap, templates>>

\* Lines 354-355: the FRR container is started on the volume.
bgp_run_frr ==
    /\ pc = "bgp_run_frr"
    /\ \/ /\ frr' = "running"
          /\ Goto("bgp_run_frr", "bgp_inspect_peer")
       \/ /\ Abort("bgp_run_frr", Raised("UnexpectedExit"))
          /\ UNCHANGED frr
    /\ UNCHANGED <<others, inputs, l2vars, bgpvars, fs, configmap, templates>>

\* Lines 357-358: the address of the FRR container, as docker prints it.
bgp_inspect_peer ==
    /\ pc = "bgp_inspect_peer"
    /\ \/ \E address \in PeerAddresses :
             /\ peer_address' = address \o <<"\n">>
             /\ Goto("bgp_inspect_peer", "bgp_read_config_tmpl")
       \/ /\ Abort("bgp_inspect_peer", Raised("UnexpectedExit"))
          /\ UNCHANGED peer_address
    /\ UNCHANGED <<others, inputs, l2vars, node_ips, f, bgpd_config, n,
                   mlb_config, effects, templates>>

\* Lines 359-360: the template is read behind the autogeneration line.
bgp_read_config_tmpl ==
    /\ pc = "bgp_read_config_tmpl"
    /\ \/ \E tmpl \in BgpConfigTemplates :
             /\ mlb_config' = with_autogen_line("#", tmpl)
             /\ templates' = [templates EXCEPT ![BgpConfigTmpl] = tmpl]
             /\ Goto("bgp_read_config_tmpl", "bgp_substitute_peer")
       \/ /\ Abort("bgp_read_config_tmpl", Raised("OSError"))
          /\ UNCHANGED <<mlb_config, templates>>
    /\ UNCHANGED <<others, inputs, l2vars, node_ips, f, bgpd_config, n,
                   peer_address, effects>>

\* Line 361: PEER_ADDRESS replaced by the stripped output of the inspection.
bgp_substitute_peer ==
    /\ pc = "bgp_substitute_peer"
    /\ \E address \in {strip(peer_address)} :
          mlb_config' = replace(mlb_config, PEER_ADDRESS, address)
    /\ Goto("bgp_substitute_peer", "bgp_write_config")
    /\ UNCHANGED <<others, inputs, l2vars, node_ips, f, bgpd_config, n,
                   peer_address, effects, templates>>

\* Lines 362-363: config.yaml is opened for writing and written.
bgp_write_config ==
    /\ pc = "bgp_write_config"
    /\ \/ /\ fs' = written(fs, BgpConfig, mlb_config)
          /\ Goto("bgp_write_config", "bgp_apply")
       \/ /\ Abort("bgp_write_config", Raised("OSError"))
          /\ UNCHANGED fs
    /\ UNCHANGED <<others, inputs, l2vars, bgpvars, frr, configmap,
                   templates>>

\* Line 365: kubectl apply -f config.yaml, then the return to dev_env.
bgp_apply ==
    /\ pc = "bgp_apply"
    /\ \/ /\ configmap' = fs[BgpConfig].text
          /\ pc' = "done"
          /\ outcome' = Returned
          /\ trace' = Append(trace, "bgp_apply")
       \/ /\ Abort("bgp_apply", Raised("UnexpectedExit"))
          /\ UNCHANGED configmap
    /\ UNCHANGED <<others, inputs, l2vars, bgpvars, fs, frr, templates>>

bgp_dev_env ==
    \/ bgp_get_nodes
    \/ bgp_rm_volume
    \/ bgp_mkdir
    \/ bgp_copy
    \/ bgp_read_bgpd_tmpl
    \/ bgp_substitute_node
    \/ bgp_write_bgpd
    \/ bgp_rm_frr
    \/ bgp_run_frr
    \/ bgp_inspect_peer
    \/ bgp_read_config_tmpl
    \/ bgp_substitute_peer
    \/ bgp_write_config
    \/ bgp_apply

Next ==
    \/ dev_env
    \/ layer2_dev_env
    \/ bgp_dev_env

Spec == Init /\ [][Next]_vars

\* ------------------------------------------------------------------------
\* The same invocation once more
\* ------------------------------------------------------------------------

\* dev_env is invoked again, with the same options, after an invocation
\* that configured a protocol and returned: a new process, with the files,
\* the container and the cluster as the first one left them.
invoke_again ==
    /\ pc = "done"
    /\ outcome = Returned
    /\ protocol # "none"
    /\ run = 1
    /\ run' = 2
    /\ first' = [kind |-> "run", fs |-> fs, templates |-> templates,
                 service_range |-> service_range, node_ips |-> node_ips,
                 peer_address |-> peer_address]
    /\ before' = [fs |-> fs, frr |-> frr, configmap |-> configmap]
    /\ pc' = "dev_env"
    /\ outcome' = Running
    /\ network_subnet_list' = <<>>
    /\ used_ipv4_list' = <<>>
    /\ used_ipv6_list' = <<>>
    /\ service_range' = <<>>
    /\ i' = 0
    /\ layer2_config' = <<>>
    /\ node_ips' = <<>>
    /\ f' = 0
    /\ bgpd_config' = <<>>
    /\ n' = 0
    /\ peer_address' = <<>>
    /\ mlb_config' = <<>>
    /\ trace' = <<>>
    /\ templates' = [t \in TemplateFiles |-> <<>>]
    /\ UNCHANGED <<protocol, kind_network, effects, buildvars, clustervars>>

\* The repeated invocation meets what the first one met: the cluster lists
\* the same nodes, the FRR container gets the same address and the
\* template files hold the same text.
SameEnvironment ==
    run = 2 =>
        /\ node_ips \in {<<>>, first.node_ips}
        /\ peer_address \in {<<>>, first.peer_address}
        /\ \A t \in TemplateFiles : templates[t] \in {<<>>, first.templates[t]}

NextTwice ==
    \/ dev_env /\ SameEnvironment'
    \/ layer2_dev_env /\ SameEnvironment'
    \/ bgp_dev_env /\ SameEnvironment'
    \/ invoke_again

SpecTwice == Init /\ [][NextTwice]_vars

\* ------------------------------------------------------------------------
\* build: the checks of its two lists
\* ------------------------------------------------------------------------

\* Longest list of names the build task is given.
MaxNames == 2

amd64 == <<"a", "m", "d", "6", "4">>

arm == <<"a", "r", "m">>

arm64 == <<"a", "r", "m", "6", "4">>

ppc64le == <<"p", "p", "c", "6", "4", "l", "e">>

s390x == <<"s", "3", "9", "0", "x">>

controller == <<"c", "o", "n", "t", "r", "o", "l", "l", "e", "r">>

speaker == <<"s", "p", "e", "a", "k", "e", "r">>

mirror_server ==
    <<"m", "i", "r", "r", "o", "r", "-", "s", "e", "r", "v", "e", "r">>

\* The name that stands for every supported name.
all == <<"a", "l", "l">>

all_binaries == {controller, speaker, mirror_server}

all_architectures == {amd64, arm, arm64, ppc64le, s390x}

\* sys.exit(code)
SystemExit(code) == [kind |-> "SystemExit", code |-> code]

\* The elements of a set in the order an iteration meets them.
RECURSIVE any_order(_)
any_order(S) ==
    IF S = {} THEN <<>>
    ELSE LET x == CHOOSE y \in S : TRUE
         IN  <<x>> \o any_order(S \ {x})

\* list(sorted(out)) for a set out.
sorted_set(out) == sorted(any_order(out))

\* _check_architectures with 'all' ending the loop.
_check_architectures_all_ends(list) ==
    IF \E k \in 1..Len(list) :
          /\ list[k] = all
          /\ \A j \in 1..(k - 1) : list[j] \in all_architectures
    THEN [kind |-> "ok", value |-> sorted_set(all_architectures)]
    ELSE IF \E k \in 1..Len(list) : list[k] \notin all_architectures
    THEN SystemExit(1)
    ELSE [kind |-> "ok",
          value |-> sorted_set(IF list = <<>> THEN {amd64}
                               ELSE {list[k] : k \in 1..Len(list)})]

\* Lines 26-39.  After[k] is out behind k rounds of the loop, or the exit
\* a round has ended with.
_check_architectures(list) ==
    LET After[k \in 0..Len(list)] ==
            IF k = 0 THEN [kind |-> "ok", out |-> {}]
            ELSE IF After[k - 1].kind # "ok" THEN After[k - 1]
            ELSE IF list[k] = all
            THEN [kind |-> "ok", out |-> After[k - 1].out \cup all_architectures]
            ELSE IF list[k] \notin all_architectures THEN SystemExit(1)
            ELSE [kind |-> "ok", out |-> After[k - 1].out \cup {list[k]}]
        end == After[Len(list)]
    IN  IF end.kind # "ok" THEN end
        ELSE IF end.out = {} THEN [kind |-> "ok", value |-> sorted_set({amd64})]
        ELSE [kind |-> "ok", value |-> sorted_set(end.out)]

\* Lines 41-55.
_check_binaries(list) ==
    LET After[k \in 0..Len(list)] ==
            IF k = 0 THEN [kind |-> "ok", out |-> {}]
            ELSE IF After[k - 1].kind # "ok" THEN After[k - 1]
            ELSE IF list[k] = all
            THEN [kind |-> "ok", out |-> After[k - 1].out \cup all_binaries]
            ELSE IF list[k] \notin all_binaries THEN SystemExit(1)
            ELSE [kind |-> "ok", out |-> After[k - 1].out \cup {list[k]}]
        end == After[Len(list)]
    IN  IF end.kind # "ok" THEN end
        ELSE IF end.out = {}
        THEN [kind |-> "ok", value |-> sorted_set({controller, speaker})]
        ELSE [kind |-> "ok", value |-> sorted_set(end.out)]

\* Names a list of --binaries may hold: supported ones, 'all', an unknown.
BinaryNames == {controller, speaker, mirror_server, all, <<"f", "r", "r">>}

\* Names a list of --architectures may hold.
ArchitectureNames == {amd64, arm, arm64, all, <<"m", "i", "p", "s">>}

ListsOver(S) == UNION {[1..m -> S] : m \in 0..MaxNames}

\* The build task is invoked with two lists; nothing of dev_env runs.
InitBuild ==
    /\ args \in [binaries : ListsOver(BinaryNames),
                 architectures : ListsOver(ArchitectureNames)]
    /\ binaries = args.binaries
    /\ architectures = args.architectures
    /\ pc = "build_check_binaries"
    /\ outcome = Running
    /\ trace = <<>>
    /\ protocol = "none"
    /\ kind_network = NoNetwork
    /\ before = CleanState
    /\ fs = before.fs
    /\ frr = before.frr
    /\ configmap = before.configmap
    /\ network_subnet_list = <<>>
    /\ used_ipv4_list = <<>>
    /\ used_ipv6_list = <<>>
    /\ service_range = <<>>
    /\ i = 0
    /\ layer2_config = <<>>
    /\ node_ips = <<>>
    /\ f = 0
    /\ bgpd_config = <<>>
    /\ n = 0
    /\ peer_address = <<>>
    /\ mlb_config = <<>>
    /\ templates = [t \in TemplateFiles |-> <<>>]
    /\ run = 1
    /\ first = NoRun
    /\ PastClusterSetup

\* Line 75: binaries = _check_binaries(binaries)
build_check_binaries ==
    /\ pc = "build_check_binaries"
    /\ \E r \in {_check_binaries(binaries)} :
          IF r.kind = "ok"
          THEN /\ binaries' = r.value
               /\ Goto("build_check_binaries", "build_check_architectures")
          ELSE /\ Abort("build_check_binaries", r)
               /\ UNCHANGED binaries
    /\ UNCHANGED <<inputs, l2vars, bgpvars, effects, templates, history, args,
                   architectures, clustervars>>

\* Line 76: architectures = _check_architectures(architectures); the
\* build goes on with line 77.
build_check_architectures ==
    /\ pc = "build_check_architectures"
    /\ \E r \in {_check_architectures(architectures)} :
          IF r.kind = "ok"
          THEN /\ architectures' = r.value
               /\ Goto("build_check_architectures", "_make_build_dirs")
          ELSE /\ Abort("build_check_architectures", r)
               /\ UNCHANGED architectures
    /\ UNCHANGED <<inputs, l2vars, bgpvars, effects, templates, history, args,
                   binaries, clustervars>>

NextBuild ==
    \/ build_check_binaries
    \/ build_check_architectures

SpecBuild == InitBuild /\ [][NextBuild]_vars

\* ------------------------------------------------------------------------
\* dev_env up to the dispatch on --protocol: the cluster and the images
\* ------------------------------------------------------------------------

\* Most clusters kind knows of.
MaxClusters == 2

\* Python values that yaml.dump is given.
Str(s) == [type |-> "str", value |-> s]

Bool(b) == [type |-> "bool", value |-> b]

Dict(d) == [type |-> "dict", items |-> d]

List(l) == [type |-> "list", items |-> l]

\* if x: for None and strings.
Truthy(x) == x # None /\ x.value # ""

\* The keys of the cluster config in ascending order, as yaml.dump sorts
\* the keys of a mapping.
KeyOrder ==
    <<"apiVersion", "disableDefaultCNI", "kind", "networking", "nodes",
      "podSubnet", "role">>

RECURSIVE Flatten(_)
Flatten(ll) == IF ll = <<>> THEN <<>> ELSE Head(ll) \o Flatten(Tail(ll))

\* The lines of a mapping in block style: "key: scalar"; "key:" over the
\* lines of a nested mapping, indented; "key:" over the items of a list,
\* each behind "- " and not indented further.
RECURSIVE yaml_lines(_, _)
yaml_lines(d, indent) ==
    LET Present(k) == k \in DOMAIN d
        keys == SelectSeq(KeyOrder, Present)
        Item(x) ==
            LET ls == yaml_lines(x.items, "")
            IN  [j \in 1..Len(ls) |->
                    indent \o (IF j = 1 THEN "- " ELSE "  ") \o ls[j]]
        Scalar(v) ==
            IF v.type = "bool" THEN (IF v.value THEN "true" ELSE "false")
            ELSE v.value
        Entry(k) ==
            IF d[k].type = "dict"
            THEN <<indent \o k \o ":">> \o yaml_lines(d[k].items, indent \o "  ")
            ELSE IF d[k].type = "list"
            THEN <<indent \o k \o ":">>
                 \o Flatten([j \in 1..Len(d[k].items) |-> Item(d[k].items[j])])
            ELSE <<indent \o k \o ": " \o Scalar(d[k])>>
    IN  Flatten([j \in 1..Len(keys) |-> Entry(keys[j])])

\* yaml.dump(config): the lines of the document.
yaml_dump(value) == yaml_lines(value.items, "")

\* Lines 203-210.
BaseConfig ==
    DictSet(DictSet(DictSet(<<>>,
        "apiVersion", Str("kind.x-k8s.io/v1alpha4")),
        "kind", Str("Cluster")),
        "nodes", List(<<Dict(DictSet(<<>>, "role", Str("control-plane"))),
                        Dict(DictSet(<<>>, "role", Str("worker"))),
                        Dict(DictSet(<<>>, "role", Str("worker")))>>))

\* Lines 203-218: the config of a new cluster.
cluster_config_of(proto, plugin) ==
    LET layer2 ==
            IF proto = "layer2"
            THEN DictSet(BaseConfig, "networking",
                         Dict(DictSet(<<>>, "podSubnet", Str("10.240.0.0/17"))))
            ELSE BaseConfig
    IN  IF Truthy(plugin)
        THEN Dict(DictSet(layer2, "networking",
                          Dict(DictSet(<<>>, "disableDefaultCNI", Bool(TRUE)))))
        ELSE Dict(layer2)

\* str.splitlines() on a text that str.strip() has left.
splitlines(s) == IF s = <<>> THEN <<>> ELSE split(s, "\n")

\* min_version
min_version == <<0, 9, 0>>

\* semver.compare on versions of three numbers: -1, 0 or 1.
semver_compare(a, b) ==
    IF a = b THEN 0
    ELSE LET k == CHOOSE j \in 1..3 : a[j] # b[j] /\ \A m \in 1..(j - 1) : a[m] = b[m]
         IN  IF a[k] < b[k] THEN -1 ELSE 1

\* dev_env is invoked; nothing has run yet. The architecture may be one
\* that build does not support; --cni is not given, given empty, or the
\* name of a manifest; "kind version" fails, prints no version (no
\* numbers), or prints a version of three numbers.
InitCluster ==
    /\ protocol \in {"layer2", "bgp", "none"}
    /\ architecture \in {amd64, arm64, <<"m", "i", "p", "s">>}
    /\ name \in {<<"k", "i", "n", "d">>, <<"d", "e", "v">>}
    /\ cni \in {None, Str(""), Str("flannel")}
    /\ kind_version \in
          [installed : {TRUE},
           version : {<<>>, <<0, 8, 1>>, <<0, 9, 0>>, <<0, 11, 1>>, <<1, 0, 0>>}]
          \cup {[installed |-> FALSE, version |-> <<>>]}
    /\ kind_clusters \in
          UNION {InjectiveSeqs({<<"k", "i", "n", "d">>, <<"d", "e", "v">>,
                                <<"k", "i", "n", "d", "2">>}, m) :
                    m \in 0..MaxClusters}
    /\ clusters = <<>>
    /\ mk_cluster = FALSE
    /\ cluster_config = None
    /\ provisioned = None
    /\ args = [binaries |-> <<>>, architectures |-> <<>>]
    /\ binaries = <<>>
    /\ architectures = <<>>
    /\ pc = "validate_kind_version"
    /\ outcome = Running
    /\ trace = <<>>
    /\ kind_network = NoNetwork
    /\ before = CleanState
    /\ fs = before.fs
    /\ frr = before.frr
    /\ configmap = before.configmap
    /\ network_subnet_list = <<>>
    /\ used_ipv4_list = <<>>
    /\ used_ipv6_list = <<>>
    /\ service_range = <<>>
    /\ i = 0
    /\ layer2_config = <<>>
    /\ node_ips = <<>>
    /\ f = 0
    /\ bgpd_config = <<>>
    /\ n = 0
    /\ peer_address = <<>>
    /\ mlb_config = <<>>
    /\ templates = [t \in TemplateFiles |-> <<>>]
    /\ run = 1
    /\ first = NoRun

\* What no step of the cluster setup changes.
flowvars == <<inputs, l2vars, bgpvars, effects, templates, history>>

\* Line 198 and lines 164-181: validate_kind_version().
validate_kind_version ==
    /\ pc = "validate_kind_version"
    /\ IF ~kind_version.installed
       THEN Abort("validate_kind_version",
                  Exit("Could not determine kind version (is kind installed?)",
                       <<>>))
       ELSE IF kind_version.version = <<>>
       THEN Abort("validate_kind_version", Raised("AttributeError"))
       ELSE IF semver_compare(kind_version.version, min_version) < 0
       THEN Abort("validate_kind_version",
                  Exit("kind version >= %s required", <<"0.9.0">>))
       ELSE Goto("validate_kind_version", "dev_env_get_clusters")
    /\ UNCHANGED <<flowvars, buildvars, clustervars>>

\* Lines 200-202: the clusters there are, and whether to make one. The
\* standard output of "kind get clusters" is a line for each cluster.
dev_env_get_clusters ==
    /\ pc = "dev_env_get_clusters"
    /\ \/ /\ clusters' =
                splitlines(strip(Flatten([k \in 1..Len(kind_clusters) |->
                                            kind_clusters[k] \o <<"\n">>])))
          /\ mk_cluster' = (name \notin {clusters'[k] : k \in 1..Len(clusters')})
          /\ Goto("dev_env_get_clusters",
                  IF mk_cluster' THEN "dev_env_config" ELSE "dev_env_build")
       \/ /\ Abort("dev_env_get_clusters", Raised("UnexpectedExit"))
          /\ UNCHANGED <<clusters, mk_cluster>>
    /\ UNCHANGED <<flowvars, buildvars, options, kind_version, kind_clusters,
                   cluster_config, provisioned>>

\* Lines 203-218: the config of the new cluster.
dev_env_config ==
    /\ pc = "dev_env_config"
    /\ cluster_config' = cluster_config_of(protocol, cni)
    /\ Goto("dev_env_config", "dev_env_create_cluster")
    /\ UNCHANGED <<flowvars, buildvars, options, kind_version, kind_clusters,
                   clusters, mk_cluster, provisioned>>

\* Lines 220-223: the config is dumped into a temporary file and kind
\* creates the cluster from it; line 225 decides on the cni manifest.
dev_env_create_cluster ==
    /\ pc = "dev_env_create_cluster"
    /\ \/ /\ provisioned' = [name |-> name, config |-> yaml_dump(cluster_config)]
          /\ kind_clusters' = Append(kind_clusters, name)
          /\ Goto("dev_env_create_cluster",
                  IF mk_cluster /\ Truthy(cni) THEN "dev_env_apply_cni"
                  ELSE "dev_env_build")
       \/ /\ Abort("dev_env_create_cluster", Raised("UnexpectedExit"))
          /\ UNCHANGED <<provisioned, kind_clusters>>
    /\ UNCHANGED <<flowvars, buildvars, options, kind_version, clusters,
                   mk_cluster, cluster_config>>

\* Line 226: kubectl apply -f e2etest/manifests/{cni}.yaml
dev_env_apply_cni ==
    /\ pc = "dev_env_apply_cni"
    /\ \/ Goto("dev_env_apply_cni", "dev_env_build")
       \/ Abort("dev_env_apply_cni", Raised("UnexpectedExit"))
    /\ UNCHANGED <<flowvars, buildvars, clustervars>>

\* Line 228: build(ctx, binaries=[...], architectures=[architecture]),
\* with the checks of lines 75-76 and the builds of lines 77-162.
dev_env_build ==
    /\ pc = "dev_env_build"
    /\ args' = [binaries |-> <<controller, speaker, mirror_server>>,
                architectures |-> <<architecture>>]
    /\ \E b \in {_check_binaries(args'.binaries)},
          a \in {_check_architectures(args'.architectures)} :
          IF b.kind # "ok"
          THEN /\ Abort("dev_env_build", b)
               /\ UNCHANGED <<binaries, architectures>>
          ELSE IF a.kind # "ok"
          THEN /\ Abort("dev_env_build", a)
               /\ binaries' = b.value
               /\ UNCHANGED architectures
          ELSE /\ binaries' = b.value
               /\ architectures' = a.value
               /\ \/ Goto("dev_env_build", "dev_env_load_images")
                  \/ Abort("dev_env_build", Raised("UnexpectedExit"))
    /\ UNCHANGED <<flowvars, clustervars>>

\* Lines 229-231: kind load docker-image for the three images.
dev_env_load_images ==
    /\ pc = "dev_env_load_images"
    /\ \/ Goto("dev_env_load_images", "dev_env_delete_pods")
       \/ Abort("dev_env_load_images", Raised("UnexpectedExit"))
    /\ UNCHANGED <<flowvars, buildvars, clustervars>>

\* Line 233: kubectl delete po -nmetallb-system --all
dev_env_delete_pods ==
    /\ pc = "dev_env_delete_pods"
    /\ \/ Goto("dev_env_delete_pods", "dev_env_apply_manifests")
       \/ Abort("dev_env_delete_pods", Raised("UnexpectedExit"))
    /\ UNCHANGED <<flowvars, buildvars, clustervars>>

\* Lines 235-256: the manifests are patched for the architecture and
\* applied; the dispatch on --protocol is what follows.
dev_env_apply_manifests ==
    /\ pc = "dev_env_apply_manifests"
    /\ \/ Goto("dev_env_apply_manifests", "dev_env")
       \/ Abort("dev_env_apply_manifests", Raised("UnexpectedExit"))
    /\ UNCHANGED <<flowvars, buildvars, clustervars>>

NextCluster ==
    \/ validate_kind_version
    \/ dev_env_get_clusters
    \/ dev_env_config
    \/ dev_env_create_cluster
    \/ dev_env_apply_cni
    \/ dev_env_build
    \/ dev_env_load_images
    \/ dev_env_delete_pods
    \/ dev_env_apply_manifests

SpecCluster == InitCluster /\ [][NextCluster]_vars

\* ------------------------------------------------------------------------
\* Notions the properties share
\* ------------------------------------------------------------------------

StepsDone == {trace[k] : k \in 1..Len(trace)}

Failed == pc = "done" /\ outcome.kind # "ok"

FailedAt(step) == Failed /\ trace[Len(trace)] = step

Completed(step) == step \in StepsDone /\ ~FailedAt(step)

Before == <<before.fs, before.frr, before.configmap>>

StartsWith(text, head) ==
    Len(text) >= Len(head) /\ SubSeq(text, 1, Len(head)) = head

\* The used addresses of a version, as addresses.
UsedOf(version) == IF version = 6 THEN used_ipv6_list ELSE used_ipv4_list

UsedAddresses(version) ==
    {ip_interface(x) :
        x \in {UsedOf(version)[k] : k \in 1..Len(UsedOf(version))} \ {<<>>}}

\* a is below b as a number.
OrdinalLess(a, b) ==
    \E k \in 1..Len(a.groups) :
        /\ a.groups[k] < b.groups[k]
        /\ \A j \in 1..(k - 1) : a.groups[j] = b.groups[j]

HighestUsed(version) ==
    CHOOSE a \in UsedAddresses(version) :
        \A b \in UsedAddresses(version) : ~OrdinalLess(a, b)

SubnetAt(k) == ip_network(network_subnet_list[k])

\* The loop has come to subnet k: its range is recorded, or it failed there.
Recorded(k) == k \in 1..Len(network_subnet_list) /\ k < i

FailedAtSubnet(k) == FailedAt("l2_subnet") /\ k = i

RangeError == "network range %s is not in %s"

\* ------------------------------------------------------------------------
\* C1: the range recorded for a version starts at the address after the
\* numerically highest used address M of that version and ends at M + 11,
\* also when the used addresses differ in their number of digits.
\* ------------------------------------------------------------------------

C1_RangeFollowsHighestUsed ==
    \A v \in DOMAIN service_range :
        LET M == HighestUsed(v)
        IN  /\ AddressAdd(M, 11).ok
            /\ service_range[v] = RangeStr(AddressAdd(M, 1), AddressAdd(M, 11))

\* ------------------------------------------------------------------------
\* C2: a range is recorded for a subnet only if its start and its end lie
\* inside the subnet and start < end; when one of them falls outside, the
\* setup fails with the range Exit naming the subnet and nothing is
\* recorded for the subnet.
\* ------------------------------------------------------------------------

C2_RangeInsideSubnetOrExit ==
    \A k \in 1..Len(network_subnet_list) :
        ((Recorded(k) \/ FailedAtSubnet(k)) /\ SubnetAt(k).ok
            /\ UsedAddresses(SubnetAt(k).version) # {}) =>
        LET network == SubnetAt(k)
            M == HighestUsed(network.version)
            start == AddressAdd(M, 1)
            end == AddressAdd(M, 11)
            inside == /\ start.ok /\ end.ok
                      /\ InNetwork(start, network) /\ InNetwork(end, network)
                      /\ OrdinalLess(start, end)
        IN  IF inside THEN TRUE
            ELSE /\ FailedAtSubnet(k)
                 /\ outcome.kind = "Exit"
                 /\ outcome.format = RangeError
                 /\ outcome.args[2] = WithPrefixStr(network)

\* ------------------------------------------------------------------------
\* C3: a node list that has not exactly 3 addresses ends bgp_dev_env with
\* the Exit about the node count, before any later step: nothing is
\* removed, created, copied, rendered, written, started or applied.
\* ------------------------------------------------------------------------

NodesListed ==
    /\ protocol = "bgp"
    /\ "bgp_get_nodes" \in StepsDone
    /\ ~(FailedAt("bgp_get_nodes") /\ outcome.kind = "UnexpectedExit")

C3_WrongNodeCountStopsSetup ==
    (NodesListed /\ Len(node_ips) # 3) =>
        /\ pc = "done"
        /\ outcome.kind = "Exit"
        /\ outcome.format = "Expected 3 nodes, got %d"
        /\ outcome.args = <<FormatNat(Len(node_ips), 10)>>
        /\ trace = <<"dev_env", "bgp_get_nodes">>
        /\ effects = Before
        /\ bgpd_config = <<>>
        /\ mlb_config = <<>>

C3_Witness ==
    /\ NodesListed
    /\ Len(node_ips) = 4
    /\ outcome = Exit("Expected 3 nodes, got %d", << <<"4">> >>)
    /\ before = StaleState

\* ------------------------------------------------------------------------
\* C4: when the subnet list lacks a subnet of one IP version, the setup
\* ends in an error and config.yaml is neither written nor applied; where
\* the ranges of the other version were computed, the error is the KeyError
\* of the missing version.
\* ------------------------------------------------------------------------

LacksVersion ==
    /\ protocol = "layer2"
    /\ \E v \in {4, 6} :
          \A k \in 1..Len(kind_network.subnets) :
              kind_network.subnets[k].version # v

C4_MissingVersionNeverWritten ==
    LacksVersion =>
        /\ effects = Before
        /\ pc \notin {"l2_write", "l2_apply"}
        /\ pc = "done" => outcome.kind # "ok"
        /\ "l2_substitute" \in StepsDone =>
              (pc = "done" /\ outcome = Raised("KeyError"))

C4_Witness ==
    /\ LacksVersion
    /\ FailedAt("l2_substitute")
    /\ outcome = Raised("KeyError")
    /\ DOMAIN service_range = {4}
    /\ before = StaleState

\* ------------------------------------------------------------------------
\* C5: with several subnets of one IP version in the list, the outcome of
\* the loop over the subnets (the ranges it records, or the error it ends
\* with) is the outcome for the list with only the first subnet of each
\* version: a further subnet of a version changes nothing.
\* ------------------------------------------------------------------------

\* The list without the subnets whose version an earlier subnet has.
KeepFirst(list) ==
    LET net == [k \in 1..Len(list) |-> ip_network(list[k])]
        Kept == {k \in 1..Len(list) :
                    \/ ~net[k].ok
                    \/ ~\E j \in 1..(k - 1) :
                            net[j].ok /\ net[j].version = net[k].version}
        Nth == [p \in 1..Cardinality(Kept) |->
                    CHOOSE k \in Kept : Cardinality({j \in Kept : j < k}) = p - 1]
    IN  [p \in 1..Cardinality(Kept) |-> list[Nth[p]]]

\* What lines 279-294 come to on a list, with the used lists of the state.
LoopOutcome(list) ==
    LET result == [k \in 1..Len(list) |->
                      subnet_body(list[k], used_ipv4_list, used_ipv6_list)]
        failing == {k \in 1..Len(list) : result[k].kind # "ok"}
        versions == {result[k].version : k \in 1..Len(list)}
        Last(v) == CHOOSE k \in 1..Len(list) :
                       /\ result[k].version = v
                       /\ \A j \in (k + 1)..Len(list) : result[j].version # v
    IN  IF failing # {}
        THEN result[CHOOSE k \in failing : \A j \in failing : k <= j]
        ELSE [kind |-> "ok", ranges |-> [v \in versions |-> result[Last(v)].range]]

LoopEnded ==
    /\ i > 0
    /\ FailedAt("l2_subnet") \/ i > Len(network_subnet_list)

LoopResult ==
    IF FailedAt("l2_subnet") THEN outcome
    ELSE [kind |-> "ok", ranges |-> service_range]

C5_FurtherSubnetChangesNothing ==
    LoopEnded => LoopResult = LoopOutcome(KeepFirst(network_subnet_list))

\* ------------------------------------------------------------------------
\* C6: with an empty used-address list for the version of a subnet, the
\* setup fails at that subnet with an Exit, not with an exception of the
\* address parsing or of indexing, and nothing is written or applied.
\* ------------------------------------------------------------------------

C6_EmptyUsedListFailsWithExit ==
    \A k \in 1..Len(network_subnet_list) :
        ((Recorded(k) \/ FailedAtSubnet(k)) /\ SubnetAt(k).ok
            /\ UsedAddresses(SubnetAt(k).version) = {}) =>
        /\ FailedAtSubnet(k)
        /\ outcome.kind = "Exit"
        /\ effects = Before

\* ------------------------------------------------------------------------
\* C7: every rendered file is the autogeneration line with its comment
\* prefix, "#" for the YAML files and "!" for bgpd.conf, followed by the
\* template with its placeholders replaced; the line is first in the text
\* at every point of the rendering.
\* ------------------------------------------------------------------------

\* text with every occurrence of tokens[t] replaced by values[t], in one
\* pass from the left.
SubstAll(text, tokens, values) ==
    LET Hit(k) == {t \in 1..Len(tokens) : MatchAt(text, k, tokens[t])}
        From[k \in 1..(Len(text) + 1)] ==
            IF k > Len(text) THEN <<>>
            ELSE IF Hit(k) # {}
            THEN LET t == CHOOSE u \in Hit(k) : TRUE
                 IN  values[t] \o From[k + Len(tokens[t])]
            ELSE <<text[k]>> \o From[k + 1]
    IN  From[1]

NodeTokens == [k \in 1..Len(node_ips) |-> NodeToken(k - 1)]

C7_AutogenLineFirst ==
    /\ layer2_config # <<>> => StartsWith(layer2_config, AutogenLine("#"))
    /\ bgpd_config # <<>> => StartsWith(bgpd_config, AutogenLine("!"))
    /\ mlb_config # <<>> => StartsWith(mlb_config, AutogenLine("#"))
    /\ Completed("l2_write") =>
          fs[Layer2Config] =
              File(AutogenLine("#") \o
                   SubstAll(templates[Layer2Tmpl],
                            <<SERVICE_V4_RANGE, SERVICE_V6_RANGE>>,
                            <<service_range[4], service_range[6]>>))
    /\ Completed("bgp_write_bgpd") =>
          fs[BgpdConf] =
              File(AutogenLine("!") \o
                   SubstAll(templates[BgpdTmpl], NodeTokens, node_ips))
    /\ Completed("bgp_write_config") =>
          fs[BgpConfig] =
              File(AutogenLine("#") \o
                   SubstAll(templates[BgpConfigTmpl],
                            <<PEER_ADDRESS>>, <<strip(peer_address)>>))

C7_Witness ==
    /\ protocol = "bgp"
    /\ outcome = Returned
    /\ templates[BgpConfigTmpl] = PEER_ADDRESS \o PEER_ADDRESS
    /\ SubSeq(fs[BgpConfig].text, 1, 6) = <<"#", " ", "T", "H", "I", "S">>
    /\ SubSeq(fs[BgpdConf].text, 1, 6) = <<"!", " ", "T", "H", "I", "S">>
    /\ configmap = fs[BgpConfig].text

\* ------------------------------------------------------------------------
\* C8: bgpd.conf is the autogeneration line followed by the template with
\* every NODEk_IP, k from 0, replaced by the address at position k of the
\* node list, in the order the cluster listed the nodes; the rest of the
\* template is as it was.
\* ------------------------------------------------------------------------

C8_NodeAddressesByPosition ==
    /\ pc = "bgp_write_bgpd" =>
          bgpd_config =
              AutogenLine("!") \o SubstAll(templates[BgpdTmpl], NodeTokens, node_ips)
    /\ Completed("bgp_write_bgpd") =>
          fs[BgpdConf] =
              File(AutogenLine("!") \o
                   SubstAll(templates[BgpdTmpl], NodeTokens, node_ips))

C8_Witness ==
    /\ Completed("bgp_write_bgpd")
    /\ node_ips = <<AddressStr(4, <<10, 0, 0, 4>>), AddressStr(4, <<10, 0, 0, 2>>),
                    AddressStr(4, <<10, 0, 0, 3>>)>>
    /\ templates[BgpdTmpl] =
           <<"n", " ">> \o NodeToken(0) \o <<"\n", "n", " ">> \o NodeToken(1)
               \o <<"\n", "n", " ">> \o NodeToken(2) \o <<"\n">>
    /\ fs[BgpdConf].text =
           AutogenLine("!") \o
           <<"n", " ", "1", "0", ".", "0", ".", "0", ".", "4", "\n",
             "n", " ", "1", "0", ".", "0", ".", "0", ".", "2", "\n",
             "n", " ", "1", "0", ".", "0", ".", "0", ".", "3", "\n">>

\* ------------------------------------------------------------------------
\* C9: the steps of a flow run in the order of the flow, none skipped and
\* none run again; the config is applied at most once and only after the
\* config.yaml rendered by this invocation is written in full; once a step
\* has failed the invocation is over and no step can run.
\* ------------------------------------------------------------------------

Layer2Order ==
    <<"dev_env", "l2_inspect_subnets", "l2_inspect_ipv4", "l2_inspect_ipv6",
      "l2_subnet", "l2_read_tmpl", "l2_substitute", "l2_write", "l2_apply">>

BgpOrder ==
    <<"dev_env", "bgp_get_nodes", "bgp_rm_volume", "bgp_mkdir", "bgp_copy",
      "bgp_read_bgpd_tmpl", "bgp_substitute_node", "bgp_write_bgpd",
      "bgp_rm_frr", "bgp_run_frr", "bgp_inspect_peer", "bgp_read_config_tmpl",
      "bgp_substitute_peer", "bgp_write_config", "bgp_apply">>

Order ==
    IF protocol = "bgp" THEN BgpOrder
    ELSE IF protocol = "layer2" THEN Layer2Order
    ELSE <<"dev_env">>

\* The steps that are iterations of a loop.
LoopSteps == {"l2_subnet", "bgp_copy", "bgp_substitute_node"}

Rank(step) == CHOOSE k \in 1..Len(Order) : Order[k] = step

InOrder ==
    \A k \in 1..Len(trace) :
        /\ \E r \in 1..Len(Order) : Order[r] = trace[k]
        /\ k = 1 => trace[k] = "dev_env"
        /\ k > 1 =>
              \/ Rank(trace[k]) = Rank(trace[k - 1]) + 1
              \/ trace[k] = trace[k - 1] /\ trace[k] \in LoopSteps

ApplyStep == IF protocol = "bgp" THEN "bgp_apply" ELSE "l2_apply"

WriteStep == IF protocol = "bgp" THEN "bgp_write_config" ELSE "l2_write"

ConfigPath == IF protocol = "bgp" THEN BgpConfig ELSE Layer2Config

Rendered == IF protocol = "bgp" THEN mlb_config ELSE layer2_config

ApplyOnceAfterWrite ==
    /\ Cardinality({k \in 1..Len(trace) : trace[k] = ApplyStep}) <= 1
    /\ (pc = ApplyStep \/ ApplyStep \in StepsDone) =>
          /\ Completed(WriteStep)
          /\ fs[ConfigPath] = File(Rendered)
    /\ Completed(ApplyStep) => configmap = Rendered
    /\ ApplyStep \notin StepsDone => configmap = before.configmap

OverAfterFailure ==
    outcome # Running => (pc = "done" /\ ~ENABLED Next)

C9_StepsInOrderNoRetry ==
    /\ InOrder
    /\ ApplyOnceAfterWrite
    /\ OverAfterFailure

C9_Witness ==
    /\ FailedAt("l2_write")
    /\ trace = <<"dev_env", "l2_inspect_subnets", "l2_inspect_ipv4",
                 "l2_inspect_ipv6", "l2_subnet", "l2_subnet", "l2_read_tmpl",
                 "l2_substitute", "l2_write">>
    /\ fs[Layer2Config] = File(StaleText)
    /\ configmap = StaleText

\* ------------------------------------------------------------------------
\* C10 as stated: when a flow ends in an error, the generated files and
\* directories, the FRR container and the applied config are as they were
\* before the invocation.
\* ------------------------------------------------------------------------

Copied == {VolumePath(copy_files[j]) : j \in 1..(IF f = 0 THEN 0 ELSE f - 1)}

ExpectedFile(p) ==
    IF p = Layer2Config
    THEN IF Completed("l2_write") THEN File(layer2_config) ELSE before.fs[p]
    ELSE IF p = BgpConfig
    THEN IF Completed("bgp_write_config") THEN File(mlb_config) ELSE before.fs[p]
    ELSE IF p = BgpdConf /\ Completed("bgp_write_bgpd") THEN File(bgpd_config)
    ELSE IF p \in Copied
    THEN File(StaticFile(CHOOSE c \in {copy_files[j] : j \in 1..Len(copy_files)} :
                             VolumePath(c) = p))
    ELSE IF p = FrrVolume /\ Completed("bgp_mkdir") THEN Directory
    ELSE IF Completed("bgp_rm_volume") THEN Absent
    ELSE before.fs[p]

ExpectedFrr ==
    IF Completed("bgp_run_frr") THEN "running"
    ELSE IF Completed("bgp_rm_frr") THEN "absent"
    ELSE before.frr

ExpectedConfigmap ==
    IF Completed(ApplyStep) THEN Rendered ELSE before.configmap

BeforeFirstEffect ==
    IF protocol = "bgp" THEN ~Completed("bgp_rm_volume")
    ELSE ~Completed("l2_write")

Occurrences(text, part) ==
    Cardinality({k \in 1..Len(text) : MatchAt(text, k, part)})

WrittenOnceMore(path, tmpl, prefix) ==
    /\ fs[path] = first.fs[path]
    /\ Occurrences(fs[path].text, AutogenLine(prefix)) =
           1 + Occurrences(templates[tmpl], AutogenLine(prefix))

C11_SameOutputTwice ==
    run = 2 =>
        /\ ( /\ Completed("l2_write")
             /\ templates[Layer2Tmpl] = first.templates[Layer2Tmpl]
             /\ service_range = first.service_range )
           => WrittenOnceMore(Layer2Config, Layer2Tmpl, "#")
        /\ ( /\ Completed("bgp_write_bgpd")
             /\ templates[BgpdTmpl] = first.templates[BgpdTmpl]
             /\ node_ips = first.node_ips )
           => WrittenOnceMore(BgpdConf, BgpdTmpl, "!")
        /\ ( /\ Completed("bgp_write_config")
             /\ templates[BgpConfigTmpl] = first.templates[BgpConfigTmpl]
             /\ peer_address = first.peer_address )
           => WrittenOnceMore(BgpConfig, BgpConfigTmpl, "#")

C11_Witness ==
    /\ run = 2
    /\ protocol = "layer2"
    /\ outcome = Returned
    /\ templates[Layer2Tmpl] = first.templates[Layer2Tmpl]
    /\ service_range = first.service_range
    /\ before.fs[Layer2Config] = first.fs[Layer2Config]
    /\ fs[Layer2Config] = first.fs[Layer2Config]
    /\ SubSeq(fs[Layer2Config].text, 1, 6) = <<"#", " ", "T", "H", "I", "S">>

\* ------------------------------------------------------------------------
\* C12: for every list, _check_binaries and _check_architectures end the
\* program with exit status 1 exactly when the list holds a name that is
\* neither supported nor 'all', wherever it stands and whether or not
\* 'all' is there too; otherwise they return an ascending list without
\* repetition of supported names: all of them when 'all' is in the list,
\* the default when the list is empty, else the distinct names given.
\* ------------------------------------------------------------------------

Names(list) == {list[k] : k \in 1..Len(list)}

Unknown(list, supported) ==
    \E x \in Names(list) : x \notin supported \cup {all}

Ascending(list) ==
    \A k \in 1..(Len(list) - 1) : StrLess(list[k], list[k + 1])

CheckedAs(step, given, result, supported, default, sorted_all) ==
    step \in StepsDone =>
        IF Unknown(given, supported)
        THEN /\ FailedAt(step)
             /\ outcome.kind = "SystemExit"
             /\ outcome.code = 1
        ELSE /\ ~FailedAt(step)
             /\ Ascending(result)
             /\ Names(result) \subseteq supported
             /\ given = <<>> => result = default
             /\ all \in Names(given) => result = sorted_all
             /\ (given # <<>> /\ all \notin Names(given)) =>
                   Names(result) = Names(given)

C12_ChecksOfBuildLists ==
    /\ CheckedAs("build_check_binaries", args.binaries, binaries, all_binaries,
                 <<controller, speaker>>,
                 <<controller, mirror_server, speaker>>)
    /\ CheckedAs("build_check_architectures", args.architectures, architectures,
                 all_architectures, <<amd64>>,
                 <<amd64, arm, arm64, ppc64le, s390x>>)

C12_Witness ==
    /\ args.binaries = <<>>
    /\ args.architectures = <<all, <<"m", "i", "p", "s">> >>
    /\ binaries = <<controller, speaker>>
    /\ FailedAt("build_check_architectures")
    /\ outcome = SystemExit(1)

\* ------------------------------------------------------------------------
\* C13: when layer2_dev_env has succeeded, every used address of a version
\* is below the start of the range recorded for the version, so that the
\* range holds no used address.
\* ------------------------------------------------------------------------

RangeStart(version) == ip_interface(split(service_range[version], "-")[1])

C13_RangeHoldsNoUsedAddress ==
    (protocol = "layer2" /\ outcome = Returned) =>
        \A v \in DOMAIN service_range :
            \A a \in UsedAddresses(v) : OrdinalLess(a, RangeStart(v))

\* ------------------------------------------------------------------------
\* C14: whenever dev_env creates a new cluster with protocol "layer2", the
\* cluster configuration handed to kind holds a networking section whose
\* podSubnet is 10.240.0.0/17, whatever the value of --cni, set or unset;
\* and no cluster is created when a cluster of the name is already there.
\* ------------------------------------------------------------------------

\* The document holds a networking section with the pod subnet in it: of
\* the config only the keys of the networking section are indented by two
\* spaces.
HasPodSubnet(lines) ==
    \E k \in 1..Len(lines) :
        /\ lines[k] = "networking:"
        /\ \E j \in (k + 1)..Len(lines) : lines[j] = "  podSubnet: 10.240.0.0/17"

C14_Layer2ClusterHasPodSubnet ==
    /\ (provisioned # None /\ protocol = "layer2")
          => HasPodSubnet(provisioned.config)
    /\ name \in Names(clusters) => provisioned = None

====
